---- MODULE Spec2Model ----
(***************************************************************************)
(* qbench: the benchmark execution engine of src/src/bench.rs.             *)
(*                                                                         *)
(* run_bench fans the suite out into one future per benchmark              *)
(* (run_query_bench), each of which fans out into one future per revision  *)
(* (run_revision_bench).  All futures live in FuturesUnordered sets that   *)
(* are polled by the one task of main, so the program is a set of          *)
(* cooperative coroutines: a coroutine runs from one .await to the next    *)
(* without interleaving.  A state of the model is therefore a state in     *)
(* which every live revision execution is suspended at an .await, and an   *)
(* action is "the awaited operation of one revision completes (or fails)   *)
(* and the code runs on to its next .await", including whatever the        *)
(* orchestrator does when that revision's future completes.                *)
(***************************************************************************)
EXTENDS Integers, Sequences, FiniteSets, TLC

\* Bounds of the model.
MaxRevisions == 3      \* revisions in a suite (over all its benchmarks)
MaxConn == 2           \* largest pool size (args.max_connections) tried
MaxIter == 2           \* largest args.iterations tried
MaxDur == 3            \* largest reading of Instant::elapsed(), in nanoseconds
MaxScriptLen == 5      \* longest script given to extract_multiline_queries alone
MaxYears == 2          \* longest Duration given to format_duration_pretty, in years

VARIABLES
    args,       \* Args: [iterations, max_connections]
    suite,      \* the parsed query_benches: Seq of QueryBench
    timer,      \* the readings Instant::elapsed() can give in this run
    ex,         \* ex[rv]: the run_revision_bench future of revision rv
    pool_in_use,\* connections checked out of the AnyPool
    pool_conns, \* the connections the AnyPool has opened so far (connect_lazy)
    db,         \* committed database state: the writes that were committed
    results,    \* results[b]: the `results` vector of run_query_bench(b)
    bench_ret,  \* bench_ret[b]: what run_query_bench(b) returned
    run_results,\* the `results` vector of run_bench
    run_ret,    \* what run_bench returned
    call        \* a call of a function of util.rs on its own: [fn, arg, ret]

vars == <<args, suite, timer, ex, pool_in_use, pool_conns, db, results, bench_ret,
          run_results, run_ret, call>>

----------------------------------------------------------------------------
\* Small helpers.

With(rec, ch) == ch @@ rec

RECURSIVE SumSeq(_)
SumSeq(s) == IF s = <<>> THEN 0 ELSE Head(s) + SumSeq(Tail(s))

NoRet == [kind |-> "none"]
NoScript == [some |-> FALSE]
NoCall == [fn |-> "none", arg |-> <<>>, ret |-> NoRet]
Script(text) == [some |-> TRUE, text |-> text]

----------------------------------------------------------------------------
\* util.rs: extract_multiline_queries.  A string is a sequence of characters.

\* Index of the first ';' of s, 0 when there is none.
RECURSIVE FirstSemi(_, _)
FirstSemi(s, k) ==
    IF k > Len(s) THEN 0
    ELSE IF s[k] = ";" THEN k
    ELSE FirstSemi(s, k + 1)

\* str::split(';'): cut at every ';', which belongs to no piece.
RECURSIVE split(_)
split(s) ==
    LET k == FirstSemi(s, 1) IN
    IF k = 0 THEN <<s>>
    ELSE <<SubSeq(s, 1, k - 1)>> \o split(SubSeq(s, k + 1, Len(s)))

\* str::split_inclusive(';'): cut after every ';', the ';' stays in its piece;
\* nothing follows a final ';', and the empty string has no piece.
RECURSIVE split_inclusive(_)
split_inclusive(s) ==
    IF s = <<>> THEN <<>>
    ELSE LET k == FirstSemi(s, 1) IN
         IF k = 0 THEN <<s>>
         ELSE <<SubSeq(s, 1, k)>> \o split_inclusive(SubSeq(s, k + 1, Len(s)))

RECURSIVE trim_start(_)
trim_start(s) == IF s # <<>> /\ Head(s) = " " THEN trim_start(Tail(s)) ELSE s

RECURSIVE trim_end(_)
trim_end(s) ==
    IF s # <<>> /\ s[Len(s)] = " " THEN trim_end(SubSeq(s, 1, Len(s) - 1)) ELSE s

\* str::trim
trim(s) == trim_end(trim_start(s))

extract_multiline_queries(query_str) ==
    LET parts == split_inclusive(query_str)
    IN  [k \in 1..Len(parts) |-> trim(parts[k])]

----------------------------------------------------------------------------
\* util.rs: format_duration_pretty.  A Duration is [secs, nanos], as in std.

\* Duration::subsec_millis: the milliseconds of the fraction of a second.
subsec_millis(duration) == duration.nanos \div 1000000

\* format!("{}", n) of an unsigned integer.
DecimalDigits == <<"0", "1", "2", "3", "4", "5", "6", "7", "8", "9">>

RECURSIVE to_string(_)
to_string(n) ==
    IF n < 10 THEN <<DecimalDigits[n + 1]>>
    ELSE to_string(n \div 10) \o <<DecimalDigits[(n % 10) + 1]>>

\* format!("{}<unit> ", n)
format_unseparated(n, unit) == to_string(n) \o unit

format(n, unit) == to_string(n) \o unit \o <<" ">>

\* util.rs:114  whether the milliseconds are printed.
ms_shown_nonzero(ms, res) == ms > 0

ms_shown(ms, res) == ms > 0 \/ res = <<>>

\* util.rs:79-120.  as_millis() is secs * 1000 + subsec_millis, so that
\* `millis % 1000` (83) is subsec_millis and `millis /= 1000` (84) leaves secs.
format_duration_pretty(duration) ==
    LET ms == subsec_millis(duration)                               \* 83
        m1 == duration.secs                                         \* 84
        secs == m1 % 60                                             \* 85
        m2 == m1 \div 60
        mins == m2 % 60                                             \* 87
        m3 == m2 \div 60
        hrs == m3 % 24                                              \* 89
        m4 == m3 \div 24
        days == m4                                                  \* 91
        years == m4 \div 365                                        \* 92-93
        r1 == IF years > 0 THEN format(years, <<"y">>) ELSE <<>>
        r2 == r1 \o (IF days > 0 \/ (years > 0 /\ hrs > 0)
                     THEN format(days, <<"d">>) ELSE <<>>)
        r3 == r2 \o (IF hrs > 0 \/ (days > 0 /\ mins > 0)
                     THEN format(hrs, <<"h">>) ELSE <<>>)
        r4 == r3 \o (IF mins > 0 \/ (hrs > 0 /\ secs > 0)
                     THEN format(mins, <<"m">>) ELSE <<>>)
        r5 == r4 \o (IF secs > 0 \/ (mins > 0 /\ ms > 0)
                     THEN format(secs, <<"s">>) ELSE <<>>)
        r6 == r5 \o (IF ms_shown(ms, r5) THEN format(ms, <<"m", "s">>) ELSE <<>>)
    IN  trim(r6)                                                    \* 119

----------------------------------------------------------------------------
\* The suite.

Benches == 1..Len(suite)
RevIds == UNION {{<<b, r>> : r \in 1..Len(suite[b].revisions)} : b \in Benches}
RevisionOf(rv) == suite[rv[1]].revisions[rv[2]]

\* A QueryRevision.
QueryRevision(name, pre, post) ==
    [name |-> name, query |-> <<"Q">>, pre_script |-> pre, post_script |-> post]

----------------------------------------------------------------------------
\* bench.rs: run_revision_bench, as a coroutine.  rec is the future's state:
\*   pc           where it is suspended ("await_*"), or how it ended
\*   tx           the Transaction: "none", "open", "rolled_back", "committed"
\*   begun        how many transactions this execution has begun
\*   conn         the pool connection the transaction runs on (0: none yet)
\*   refs         strong count of the Arc<Mutex<Transaction>>
\*   locked       whether a MutexGuard of the transaction is alive
\*   in_flight    statements sent on the transaction and not yet completed
\*   phase        the script execute_script is running: "pre", "post", "none"
\*   pieces       execute_script's extract_multiline_queries(script)
\*   script_line  index in pieces of the statement being executed
\*   i            completed turns of the `for _ in 0..iterations` loop
\*   durations    the local vector `durations`
\*   res          bench_success_res
\*   writes       the transaction's uncommitted effects (statements applied)
\*   log          what this execution did to the database, in order
\*   ret          what the call returned: none yet, ok(value), err(error), panic

\* bench.rs:288-291
NewResult(name) ==
    [revision_name |-> name, durations |-> <<>>, avg_query_duration |-> 0,
     pre_script_duration |-> 0, post_script_duration |-> 0]

NewExec(rv) ==
    [pc |-> "await_begin", tx |-> "none", begun |-> 0, conn |-> 0, refs |-> 0,
     locked |-> FALSE, in_flight |-> 0, phase |-> "none", pieces |-> <<>>,
     script_line |-> 0, i |-> 0, durations |-> <<>>,
     res |-> NewResult(RevisionOf(rv).name), writes |-> {}, log |-> <<>>,
     ret |-> NoRet]

Suspended == {"await_begin", "await_script", "await_query", "await_rollback", "await_lock"}
Transient == {"pre_check", "script_loop", "loop_head", "after_loop", "post_check", "rollback"}

Event(ev, kind, text) == [ev |-> ev, kind |-> kind, text |-> text]

\* Transaction::rollback (bench.rs:362): the uncommitted effects are discarded.
tx_commit(rec) ==
    With(rec, [conn |-> 0, tx |-> "committed",
               log |-> Append(rec.log, Event("commit", "tx", <<>>))])

tx_rollback(rec) ==
    With(rec, [conn |-> 0, tx |-> "rolled_back", writes |-> {},
               log |-> Append(rec.log, Event("rollback", "tx", <<>>))])

\* Drop of the Transaction (sqlx rolls an open transaction back when it is
\* dropped): every exit of run_revision_bench that does not reach line 362,
\* and the drop of a future that is abandoned.
drop_tx_forget(rec) == rec

drop_tx(rec) ==
    IF rec.tx = "open"
    THEN With(rec, [conn |-> 0, tx |-> "rolled_back", writes |-> {},
                    log |-> Append(rec.log, Event("rollback", "drop", <<>>))])
    ELSE rec

\* The locals of the call go out of scope: guard, Arc clones, transaction.
drop_locals(rec) ==
    With(drop_tx(rec), [locked |-> FALSE, refs |-> 0, in_flight |-> 0])

\* `?`: the call returns Err(error)
return_err(rec, error) ==
    With(drop_locals(rec), [pc |-> "returned", ret |-> [kind |-> "err", error |-> error]])

\* a panic unwinds the call
panic(rec, what) ==
    With(drop_locals(rec), [pc |-> "panicked", ret |-> [kind |-> "panic", what |-> what]])

\* The future is dropped before it completed (FuturesUnordered is dropped).
drop_future_detached(rec) ==
    IF rec.pc \in Suspended THEN With(rec, [pc |-> "dropped"]) ELSE rec

drop_future(rec) ==
    IF rec.pc \in Suspended THEN With(drop_locals(rec), [pc |-> "dropped"]) ELSE rec

\* tx.lock().await, then query(text).execute(lock.deref_mut()) is started.
\* A second lock() while a guard is alive would wait for ever.
execute_no_await(rec, kind, text, next) ==
    With(rec, [in_flight |-> rec.in_flight + 1,
               log |-> Append(rec.log, Event("execute", kind, text)),
               pc |-> IF kind = "query" THEN "loop_head" ELSE "script_loop",
               i |-> IF kind = "query" THEN rec.i + 1 ELSE rec.i,
               script_line |-> IF kind = "query" THEN rec.script_line
                               ELSE rec.script_line + 1])

execute(rec, kind, text, next) ==
    IF rec.locked THEN With(rec, [pc |-> "await_lock"])
    ELSE With(rec, [locked |-> TRUE, in_flight |-> rec.in_flight + 1,
                    log |-> Append(rec.log, Event("execute", kind, text)),
                    pc |-> next])

\* Duration::div_f64 (bench.rs:342-346).  sum and the result are whole
\* nanoseconds; the quotient goes through f64 and back, and the conversion
\* back truncates or rounds to nearest depending on the toolchain:
\*   "trunc"    floor of the quotient
\*   "below"    truncation of a quotient the f64 represents just below its value
\*   "nearest"  rounding to the nearest nanosecond
FpModes == {"trunc", "below", "nearest"}

div_f64_by_next(sum, n, fp) == sum \div (n + 1)

div_f64(sum, n, fp) ==
    CASE fp = "trunc" -> sum \div n
      [] fp = "below" -> IF sum > 0 THEN (sum - 1) \div n ELSE 0
      [] OTHER -> (2 * sum + n) \div (2 * n)

\* QBench::execute_script is entered (bench.rs:301, 351 and 403-412).
call_execute_script_unsplit(rec, phase, script) ==
    With(rec, [pc |-> "script_loop", phase |-> phase, refs |-> rec.refs + 1,
               pieces |-> <<trim(script)>>, script_line |-> 1])

call_execute_script_kept(rec, phase, script) ==
    With(rec, [pc |-> "script_loop", phase |-> phase, refs |-> rec.refs + 2,
               pieces |-> extract_multiline_queries(script), script_line |-> 1])

call_execute_script(rec, phase, script) ==
    With(rec, [pc |-> "script_loop", phase |-> phase, refs |-> rec.refs + 1,
               pieces |-> extract_multiline_queries(script), script_line |-> 1])

\* One step of straight-line code, between two awaits.  o is what the
\* environment decides in this step: o.elapsed, the reading of
\* Instant::elapsed(), and o.fp, how div_f64 comes out.
Step(rec, rev, o) ==
    CASE rec.pc = "pre_check" ->                                   \* 300
           IF rev.pre_script.some
           THEN call_execute_script(rec, "pre", rev.pre_script.text)
           ELSE With(rec, [pc |-> "loop_head"])
      [] rec.pc = "script_loop" ->                                 \* 412-425
           IF rec.script_line <= Len(rec.pieces)
           THEN execute(rec, rec.phase, rec.pieces[rec.script_line], "await_script")
           ELSE IF rec.locked THEN With(rec, [pc |-> "await_lock"])
           ELSE IF rec.phase = "pre"
           THEN With(rec, [refs |-> rec.refs - 1, phase |-> "none", pc |-> "loop_head",
                           res |-> With(rec.res, [pre_script_duration |-> o.elapsed])])
           ELSE With(rec, [refs |-> rec.refs - 1, phase |-> "none", pc |-> "rollback",
                           res |-> With(rec.res, [post_script_duration |-> o.elapsed])])
      [] rec.pc = "loop_head" ->                                   \* 315-321
           IF rec.i < args.iterations
           THEN execute(rec, "query", rev.query, "await_query")
           ELSE With(rec, [pc |-> "after_loop"])
      [] rec.pc = "after_loop" ->                                  \* 338-346
           LET total == Len(rec.durations) IN
           IF total = 0
           THEN panic(rec, "div_f64")
           ELSE With(rec, [pc |-> "post_check",
                           res |-> With(rec.res,
                              [durations |-> rec.durations,
                               avg_query_duration |->
                                   div_f64(SumSeq(rec.durations), total, o.fp)])])
      [] rec.pc = "post_check" ->                                  \* 349
           IF rev.post_script.some
           THEN call_execute_script(rec, "post", rev.post_script.text)
           ELSE With(rec, [pc |-> "rollback"])
      [] rec.pc = "rollback" ->                                    \* 362
           IF rec.refs # 1 \/ rec.locked
           THEN panic(rec, "try_unwrap")
           ELSE With(rec, [refs |-> 0, in_flight |-> rec.in_flight + 1,
                           log |-> Append(rec.log, Event("execute", "rollback", <<>>)),
                           pc |-> "await_rollback"])
      [] OTHER -> rec

\* Run the coroutine to its next await (or to its end).
RECURSIVE Run(_, _, _)
Run(rec, rev, o) == IF rec.pc \in Transient THEN Run(Step(rec, rev, o), rev, o) ELSE rec

----------------------------------------------------------------------------
\* The orchestrator: what run_query_bench and run_bench do when the future of
\* revision rv, now in state rec, has been polled.

NumRevisions(b) == Len(suite[b].revisions)

\* bench.rs:245-248
QueryBenchResult(b, revision_results) == [name |-> suite[b].name, results |-> revision_results]

\* bench.rs:237-239
BenchContext(b, e) ==
    [context |-> "Error running benchmark for query", name |-> suite[b].name, source |-> e]

\* The AnyPool of QBench::new (bench.rs:47-51): at most max_connections
\* connections, opened when first needed.  A connection is held by the open
\* transaction it was checked out for, idle otherwise.
Held == {ex[r].conn : r \in {q \in RevIds : ex[q].tx = "open"}}
Idle == pool_conns \ Held

\* What pool.begin() can check out now: an idle connection, or a new one
\* while fewer than max_connections are checked out; nothing otherwise (the
\* caller waits).
Acquirable_shared == IF pool_in_use >= args.max_connections THEN {} ELSE 1..args.max_connections

Acquirable_unbounded ==
    IF Idle # {} THEN Idle ELSE {Cardinality(pool_conns) + 1}

Acquirable ==
    IF pool_in_use >= args.max_connections THEN {}
    ELSE IF Idle # {} THEN Idle
    ELSE {Cardinality(pool_conns) + 1}

\* The connection of a transaction goes back to the pool when the transaction ends.
Released(old, new) == Cardinality({r \in RevIds : old[r].tx = "open" /\ new[r].tx # "open"})
Acquired(old, new) == Cardinality({r \in RevIds : old[r].tx # "open" /\ new[r].tx = "open"})

\* The connections in use after a step; a new one among them has been opened.
Opened(new) == {new[r].conn : r \in {q \in RevIds : new[q].tx = "open"}}

\* What a committed transaction leaves in the database.
Committed(old, new) ==
    UNION {{<<r, w>> : w \in new[r].writes} :
             r \in {q \in RevIds : old[q].tx = "open" /\ new[q].tx = "committed"}}

Poll(rv, rec) ==
    LET b == rv[1]
        polled == [ex EXCEPT ![rv] = rec]
        \* every other future is dropped with the FuturesUnordered that holds it
        abandoned == [r \in RevIds |-> IF r = rv THEN rec ELSE drop_future(ex[r])]
    IN
    CASE rec.ret.kind = "ok" ->                                    \* 235
           LET rs == Append(results[b], rec.ret.value)
               bench_done == Len(rs) = NumRevisions(b)             \* 233: next() is None
               brs == IF bench_done
                      THEN Append(run_results, QueryBenchResult(b, rs))   \* 136
                      ELSE run_results
           IN  /\ ex' = polled
               /\ results' = [results EXCEPT ![b] = rs]
               /\ bench_ret' = IF bench_done
                               THEN [bench_ret EXCEPT ![b] =
                                        [kind |-> "ok", value |-> QueryBenchResult(b, rs)]]
                               ELSE bench_ret
               /\ run_results' = brs
               /\ run_ret' = IF Len(brs) = Len(suite)              \* 135: next() is None
                             THEN [kind |-> "ok", value |-> brs]   \* 139
                             ELSE run_ret
               /\ pool_in_use' = pool_in_use + Acquired(ex, polled) - Released(ex, polled)
               /\ pool_conns' = pool_conns \cup Opened(polled)
               /\ db' = db \cup Committed(ex, polled)
      [] rec.ret.kind = "err" ->                                   \* 236-240, 136
           /\ ex' = abandoned
           /\ bench_ret' = [c \in Benches |->
                  IF c = b THEN [kind |-> "err", error |-> BenchContext(b, rec.ret.error)]
                  ELSE IF bench_ret[c].kind = "none" THEN [kind |-> "dropped"]
                  ELSE bench_ret[c]]
           /\ run_ret' = [kind |-> "err", error |-> BenchContext(b, rec.ret.error)]
           /\ pool_in_use' = pool_in_use + Acquired(ex, abandoned) - Released(ex, abandoned)
           /\ pool_conns' = pool_conns \cup Opened(abandoned)
           /\ db' = db \cup Committed(ex, abandoned)
           /\ UNCHANGED <<results, run_results>>
      [] rec.ret.kind = "panic" ->                \* the panic unwinds through main
           /\ ex' = abandoned
           /\ bench_ret' = [c \in Benches |->
                  IF bench_ret[c].kind = "none" THEN [kind |-> "dropped"] ELSE bench_ret[c]]
           /\ run_ret' = [kind |-> "panic", what |-> rec.ret.what]
           /\ pool_in_use' = pool_in_use + Acquired(ex, abandoned) - Released(ex, abandoned)
           /\ pool_conns' = pool_conns \cup Opened(abandoned)
           /\ db' = db \cup Committed(ex, abandoned)
           /\ UNCHANGED <<results, run_results>>
      [] OTHER ->                                 \* the future is pending again
           /\ ex' = polled
           /\ pool_in_use' = pool_in_use + Acquired(ex, polled) - Released(ex, polled)
           /\ pool_conns' = pool_conns \cup Opened(polled)
           /\ db' = db \cup Committed(ex, polled)
           /\ UNCHANGED <<results, bench_ret, run_results, run_ret>>

Oracles == [elapsed : timer, fp : FpModes]

\* The awaited operation of rv has completed, leaving the future in state
\* rec: the code runs on to the next await and the orchestrator sees the result.
Resume(rv, rec) ==
    /\ \E o \in Oracles : Poll(rv, Run(rec, RevisionOf(rv), o))
    /\ UNCHANGED <<args, suite, timer, call>>

Running == run_ret.kind = "none"

----------------------------------------------------------------------------
\* The actions: one per await of run_revision_bench and way it can end.

\* bench.rs:297  pool.begin().await  succeeds: a connection is checked out of
\* the pool (there must be one to give) and BEGIN is executed on it.
pool_begin_ok(rv) ==
    /\ Running /\ ex[rv].pc = "await_begin"
    /\ \E c \in Acquirable :
         Resume(rv, With(ex[rv], [tx |-> "open", begun |-> ex[rv].begun + 1, refs |-> 1,
                                 conn |-> c,
                                 log |-> Append(ex[rv].log, Event("begin", "tx", <<>>)),
                                 pc |-> "pre_check"]))

\* bench.rs:297  pool.begin().await?  fails: acquire_timeout elapsed while
\* every connection was checked out, or connecting / BEGIN failed.
pool_begin_err_tagged(rv) ==
    /\ Running /\ ex[rv].pc = "await_begin"
    /\ Resume(rv, With(ex[rv],
          [pc |-> "returned",
           ret |-> [kind |-> "ok",
                    value |-> [tag |-> "Failure", revision_name |-> RevisionOf(rv).name,
                               error |-> "PoolTimedOut"]]]))

pool_begin_err(rv) ==
    /\ Running /\ ex[rv].pc = "await_begin"
    /\ \E cause \in {"PoolTimedOut", "Io"} :
         /\ cause = "PoolTimedOut" <=> Acquirable = {}
         /\ Resume(rv, return_err(ex[rv], [context |-> "none", source |-> cause]))

\* bench.rs:414  a statement of a script completes.
script_statement_ok(rv) ==
    /\ Running /\ ex[rv].pc = "await_script"
    /\ Resume(rv, With(ex[rv],
          [in_flight |-> ex[rv].in_flight - 1, locked |-> FALSE,
           writes |-> ex[rv].writes \cup {<<ex[rv].phase, ex[rv].script_line>>},
           log |-> Append(ex[rv].log,
                          Event("done", ex[rv].phase, ex[rv].pieces[ex[rv].script_line])),
           script_line |-> ex[rv].script_line + 1, pc |-> "script_loop"]))

\* bench.rs:414, 303-308, 353-358  a statement of a script fails.
script_statement_err(rv) ==
    /\ Running /\ ex[rv].pc = "await_script"
    /\ Resume(rv, return_err(
          With(ex[rv], [log |-> Append(ex[rv].log,
                          Event("failed", ex[rv].phase, ex[rv].pieces[ex[rv].script_line]))]),
          [context |-> IF ex[rv].phase = "pre" THEN "Error executing Pre-Script for revision"
                       ELSE "Error executing Post-Script for revision",
           name |-> RevisionOf(rv).name, source |-> "database"]))

\* bench.rs:320-334  the query of the current iteration completes.
query_ok(rv) ==
    /\ Running /\ ex[rv].pc = "await_query"
    /\ \E d \in timer :
         Resume(rv, With(ex[rv],
            [in_flight |-> ex[rv].in_flight - 1, locked |-> FALSE,
             writes |-> ex[rv].writes \cup {<<"query", ex[rv].i + 1>>},
             log |-> Append(ex[rv].log,
                            With(Event("done", "query", RevisionOf(rv).query),
                                 [elapsed |-> d])),
             durations |-> Append(ex[rv].durations, d),
             i |-> ex[rv].i + 1, pc |-> "loop_head"]))

\* bench.rs:320-329  the query of the current iteration fails.
query_err(rv) ==
    /\ Running /\ ex[rv].pc = "await_query"
    /\ Resume(rv, return_err(
          With(ex[rv], [log |-> Append(ex[rv].log,
                                       Event("failed", "query", RevisionOf(rv).query))]),
          [context |-> "Error executing query for revision",
           name |-> RevisionOf(rv).name, source |-> "database"]))

\* bench.rs:362-364  rollback().await succeeds: Ok(bench_success_res).
rollback_ok(rv) ==
    /\ Running /\ ex[rv].pc = "await_rollback"
    /\ Resume(rv, With(tx_rollback(ex[rv]),
          [in_flight |-> ex[rv].in_flight - 1, pc |-> "returned",
           ret |-> [kind |-> "ok", value |-> ex[rv].res]]))

\* bench.rs:362  rollback().await? fails: the transaction is dropped open.
rollback_err(rv) ==
    /\ Running /\ ex[rv].pc = "await_rollback"
    /\ Resume(rv, return_err(ex[rv], [context |-> "none", source |-> "database"]))

Next ==
    \/ \E rv \in RevIds : pool_begin_ok(rv)
    \/ \E rv \in RevIds : pool_begin_err(rv)
    \/ \E rv \in RevIds : script_statement_ok(rv)
    \/ \E rv \in RevIds : script_statement_err(rv)
    \/ \E rv \in RevIds : query_ok(rv)
    \/ \E rv \in RevIds : query_err(rv)
    \/ \E rv \in RevIds : rollback_ok(rv)
    \/ \E rv \in RevIds : rollback_err(rv)

----------------------------------------------------------------------------
\* Initial states.

\* The scripts tried: one statement, two statements, and a script whose last
\* piece is blank.
ScriptA == <<"A", ";">>
ScriptAB == <<"A", ";", " ", "B">>
ScriptASp == <<"A", ";", " ">>
Scripts == {NoScript, Script(ScriptA), Script(ScriptAB), Script(ScriptASp)}

\* Suites by shape: shape[b] is the number of revisions of benchmark b.
Shapes ==
    {s \in UNION {[1..n -> 1..MaxRevisions] : n \in 1..MaxRevisions} :
        SumSeq(s) <= MaxRevisions}

\* The suite of a shape; which revisions have which script is fixed by position.
SuiteOf(shape) ==
    [b \in 1..Len(shape) |->
        [name |-> b,
         revisions |-> [r \in 1..shape[b] |->
            QueryRevision(<<b, r>>,
                          IF b = 1 /\ r = 1 THEN Script(ScriptA) ELSE NoScript,
                          IF b = 1 /\ r = 2 THEN Script(ScriptA) ELSE NoScript)]]]

InitRun ==
    /\ ex = [rv \in RevIds |-> NewExec(rv)]
    /\ pool_in_use = 0
    /\ pool_conns = {}
    /\ db = {}
    /\ results = [b \in Benches |-> <<>>]
    /\ bench_ret = [b \in Benches |-> NoRet]
    /\ run_results = <<>>
    /\ run_ret = NoRet
    /\ call = NoCall

\* A whole suite, its revisions running concurrently (the default single
\* iteration of args.rs:43, or none; one reading of the clock).
Init ==
    /\ args \in [iterations : 0..1, max_connections : 1..MaxConn]
    /\ suite \in {SuiteOf(s) : s \in Shapes}
    /\ timer = {1}
    /\ InitRun

Spec == Init /\ [][Next]_vars

\* pool.begin().await of rv completes.  The runtime polls a future whose
\* wake-up has come: a connection handed over by the pool, or the timer of
\* acquire_timeout (bench.rs:49) having fired.
AllRevIds == (1..MaxRevisions) \X (1..MaxRevisions)
begin_completes(rv) == rv \in RevIds /\ (pool_begin_ok(rv) \/ pool_begin_err(rv))

SpecFair == Init /\ [][Next]_vars /\ \A rv \in AllRevIds : WF_vars(begin_completes(rv))

\* One revision on its own, with every script, iteration count and timing.
InitRevision ==
    /\ args \in [iterations : 0..MaxIter, max_connections : {1}]
    /\ suite \in {<<[name |-> 1, revisions |-> <<QueryRevision(<<1, 1>>, pre, post)>>]>> :
                    pre \in Scripts, post \in Scripts}
    /\ timer = 0..MaxDur
    /\ InitRun

SpecRevision == InitRevision /\ [][Next]_vars

----------------------------------------------------------------------------
\* The functions of util.rs on their own: no suite is run, one call is made.

InitIdle ==
    /\ args = [iterations |-> 1, max_connections |-> 1]
    /\ suite = <<>>
    /\ timer = {1}
    /\ ex = [rv \in RevIds |-> NewExec(rv)]
    /\ pool_in_use = 0
    /\ pool_conns = {}
    /\ db = {}
    /\ results = [b \in Benches |-> <<>>]
    /\ bench_ret = [b \in Benches |-> NoRet]
    /\ run_results = <<>>
    /\ run_ret = NoRet

Returns(value) ==
    /\ call.ret = NoRet
    /\ call' = [call EXCEPT !.ret = [kind |-> "ok", value |-> value]]
    /\ UNCHANGED <<args, suite, timer, ex, pool_in_use, pool_conns, db, results,
                   bench_ret, run_results, run_ret>>

\* Scripts over a statement alphabet, the separator and the blank.
Chars == {"A", "B", ";", " "}
Strings == UNION {[1..n -> Chars] : n \in 0..MaxScriptLen}

InitSplit ==
    /\ InitIdle
    /\ call \in [fn : {"extract_multiline_queries"}, arg : Strings, ret : {NoRet}]

extract_call ==
    /\ call.fn = "extract_multiline_queries"
    /\ Returns(extract_multiline_queries(call.arg))

SpecSplit == InitSplit /\ [][extract_call]_vars

\* Durations around every unit boundary of the formatter.
\* The Duration of the example of util.rs:75.
DocExample == [secs |-> 1234567, nanos |-> 0]

Durations ==
    {DocExample} \cup
    {[secs |-> s + 60 * (m + 60 * (h + 24 * (365 * y + d))), nanos |-> n] :
        s \in {0, 1, 59}, m \in {0, 1, 59}, h \in {0, 1, 23},
        d \in {0, 1, 364}, y \in 0..MaxYears,
        n \in {0, 1, 999999, 1000000, 999999999}}

InitFormat ==
    /\ InitIdle
    /\ call \in [fn : {"format_duration_pretty"}, arg : Durations, ret : {NoRet}]

format_call ==
    /\ call.fn = "format_duration_pretty"
    /\ Returns(format_duration_pretty(call.arg))

SpecFormat == InitFormat /\ [][format_call]_vars

----------------------------------------------------------------------------
\* Vocabulary of the properties.

Exited(rv) == ex[rv].pc \in {"returned", "panicked", "dropped"}
Log(rv) == ex[rv].log

\* Positions of the log of rv holding an event ev of statement kind kind.
Events(rv, ev, kind) == {k \in 1..Len(Log(rv)) : Log(rv)[k].ev = ev /\ Log(rv)[k].kind = kind}
Executed(rv, kind) == Cardinality(Events(rv, "execute", kind))
Failed(rv, kind) == Events(rv, "failed", kind) # {}

\* The call for rv ended the way the revision executor's contract names:
Completed(rv) == ex[rv].ret.kind = "ok"
StatementFailed(rv) == Failed(rv, "pre") \/ Failed(rv, "query") \/ Failed(rv, "post")

\* The RevisionOutcome reported for rv is the union value tag{revision_name, error}.
IsFailureOutcome(rv, tag) ==
    /\ ex[rv].ret.kind = "ok"
    /\ DOMAIN ex[rv].ret.value = {"tag", "revision_name", "error"}
    /\ ex[rv].ret.value.tag = tag
    /\ ex[rv].ret.value.revision_name = RevisionOf(rv).name

\* The outcomes of the run's result, by revision name.
Reported ==
    IF run_ret.kind # "ok" THEN {}
    ELSE UNION {{run_ret.value[k].results[j] : j \in 1..Len(run_ret.value[k].results)} :
                  k \in 1..Len(run_ret.value)}

----------------------------------------------------------------------------
\* C1: every execution of a revision begins exactly one transaction, all its
\* statements run on that transaction while it is open, and on every exit
\* path (normal completion, pre-script, query or post-script failure) the
\* transaction has been rolled back; it is never committed.
C1_OneTransactionRolledBack ==
    \A rv \in RevIds :
        /\ ex[rv].begun <= 1
        /\ ex[rv].tx # "committed"
        /\ Events(rv, "commit", "tx") = {}
        /\ Log(rv) # <<>> => /\ ex[rv].begun = 1
                             /\ Log(rv)[1].ev = "begin"
                             /\ \A k \in 2..Len(Log(rv)) : Log(rv)[k].ev # "begin"
        /\ \A k \in 1..Len(Log(rv)) :
              Log(rv)[k].ev = "rollback" => k = Len(Log(rv))
        /\ ex[rv].in_flight > 0 => ex[rv].tx = "open"
        /\ (Completed(rv) \/ StatementFailed(rv)) /\ Exited(rv) =>
              /\ ex[rv].begun = 1
              /\ ex[rv].tx = "rolled_back"
              /\ Log(rv)[Len(Log(rv))].ev = "rollback"

\* A post-script statement failed after the pre-script and the iterations
\* were done, and the call has returned.
C1_Witness ==
    \E rv \in RevIds :
        /\ Failed(rv, "post") /\ Executed(rv, "pre") > 0 /\ Executed(rv, "query") > 1
        /\ ex[rv].pc = "returned" /\ ex[rv].tx = "rolled_back"

\* C2: no revision execution ever commits: whatever the outcomes of the
\* revisions that ran (concurrently) so far, the committed database state is
\* what it was before the run, and an execution that ended left nothing behind.
C2_NeverCommits ==
    /\ db = {}
    /\ \A rv \in RevIds :
          /\ ex[rv].tx # "committed"
          /\ Exited(rv) => ex[rv].writes = {}

\* One revision completed and another failed in the same run, both after
\* statements of theirs had taken effect in their transactions.
C2_Witness ==
    \E r1, r2 \in RevIds :
        /\ Completed(r1) /\ Events(r1, "done", "query") # {}
        /\ ex[r2].ret.kind = "err" /\ Events(r2, "done", "pre") # {}
        /\ db = {}

\* C3: a failure of one revision (pre-script, query or post-script) never
\* aborts its siblings: once the run is over every other revision has run to
\* its own outcome and that outcome is in the run's result.
C3_FailureDoesNotAbortSiblings ==
    \A rv \in RevIds :
        StatementFailed(rv) /\ ~Running =>
            \A other \in RevIds \ {rv} :
                /\ ex[other].pc = "returned"
                /\ \E o \in Reported : o.revision_name = RevisionOf(other).name

\* C4: the revision executor never raises: a failing pre-script statement,
\* query iteration or post-script statement is reported as a value of the
\* outcome union, never as an error of the call.
C4_NeverRaises ==
    \A rv \in RevIds :
        StatementFailed(rv) /\ Exited(rv) =>
            \/ IsFailureOutcome(rv, "PreScriptFailure")
            \/ IsFailureOutcome(rv, "Failure")
            \/ IsFailureOutcome(rv, "PostScriptFailure")

\* C5: for any suite and pool size the run ends (no revision waits for ever)
\* with one BenchmarkOutcome per benchmark, each with one RevisionOutcome per
\* revision.  Stated for the runs in which every revision obtained its
\* connection and iterations >= 1.
C5_RunCompletesWithAllOutcomes ==
    /\ Running => ENABLED Next
    /\ (~Running /\ args.iterations >= 1
         /\ \A rv \in RevIds : ex[rv].begun = 1 \/ ex[rv].pc = "dropped") =>
          /\ run_ret.kind = "ok"
          /\ Len(run_ret.value) = Len(suite)
          /\ \A b \in Benches :
                \E k \in 1..Len(run_ret.value) :
                    /\ run_ret.value[k].name = suite[b].name
                    /\ Len(run_ret.value[k].results) = NumRevisions(b)

\* C6: if a statement of the pre-script fails, the outcome is
\* PreScriptFailure{revision_name, error} and neither the query nor the
\* post-script is ever executed.
C6_PreScriptFailure ==
    \A rv \in RevIds :
        Failed(rv, "pre") =>
            /\ Executed(rv, "query") = 0
            /\ Executed(rv, "post") = 0
            /\ Exited(rv) => IsFailureOutcome(rv, "PreScriptFailure")

\* C7: if the query fails on iteration k, exactly k executions of the query
\* were issued, the post-script is not run, the outcome is
\* Failure{revision_name, error}, and it carries no durations and no average.
C7_QueryFailure ==
    \A rv \in RevIds :
        Failed(rv, "query") =>
            /\ Executed(rv, "query") = Cardinality(Events(rv, "done", "query")) + 1
            /\ Executed(rv, "post") = 0
            /\ Exited(rv) => IsFailureOutcome(rv, "Failure")

\* C8: if a post-script statement fails after all n iterations succeeded, the
\* outcome is PostScriptFailure{revision_name, error}: name and error only,
\* without the n durations and the average.
C8_PostScriptFailure ==
    \A rv \in RevIds :
        Failed(rv, "post") =>
            /\ Cardinality(Events(rv, "done", "query")) = args.iterations
            /\ Exited(rv) => IsFailureOutcome(rv, "PostScriptFailure")

\* The readings of the clock taken after the completed iterations, in order.
RECURSIVE Measured(_)
Measured(log) ==
    IF log = <<>> THEN <<>>
    ELSE IF Head(log).ev = "done" /\ Head(log).kind = "query"
         THEN <<Head(log).elapsed>> \o Measured(Tail(log))
         ELSE Measured(Tail(log))

\* C9: a revision run with iterations = n >= 1 that completes reports exactly
\* n durations, the readings of its n query executions in execution order,
\* and an average within one nanosecond (the resolution of Duration) of
\* their sum divided by n.
C9_SuccessDurations ==
    \A rv \in RevIds :
        Completed(rv) =>
            LET v == ex[rv].ret.value
                n == args.iterations
                d == v.avg_query_duration * n - SumSeq(v.durations)
            IN  /\ n >= 1
                /\ Len(v.durations) = n
                /\ Executed(rv, "query") = n
                /\ v.durations = Measured(Log(rv))
                /\ d <= n /\ -d <= n

\* Two iterations with different durations, and the call returned Ok.
C9_Witness ==
    \E rv \in RevIds :
        /\ Completed(rv)
        /\ Len(ex[rv].ret.value.durations) >= 2
        /\ ex[rv].ret.value.durations[1] # ex[rv].ret.value.durations[2]

\* C10: within one revision execution at most one statement is in flight on
\* the transaction: a statement (script statement, iteration of the query,
\* rollback) is started only when the one before it has completed.
C10_OneStatementInFlight ==
    \A rv \in RevIds :
        /\ ex[rv].in_flight <= 1
        /\ \A k \in 1..Len(Log(rv)) - 1 :
              Log(rv)[k].ev = "execute" =>
                  /\ Log(rv)[k + 1].ev \in {"done", "failed", "rollback"}
                  /\ Log(rv)[k + 1].ev # "rollback" => Log(rv)[k + 1].kind = Log(rv)[k].kind
        /\ ex[rv].in_flight = 1 =>
              /\ ex[rv].locked \/ ex[rv].pc = "await_rollback"
              /\ Log(rv)[Len(Log(rv))].ev = "execute"

\* The second iteration is in flight after a two-statement pre-script and the
\* first iteration have completed.
C10_Witness ==
    \E rv \in RevIds :
        /\ ex[rv].pc = "await_query" /\ ex[rv].i >= 1 /\ ex[rv].in_flight = 1
        /\ Cardinality(Events(rv, "done", "pre")) >= 2

\* The executions that hold an open transaction.
Open == {rv \in RevIds : ex[rv].tx = "open"}

\* C11: revision executions run side by side, each on a transaction of its
\* own: an open transaction runs on a connection of the pool that no other
\* open transaction runs on, an execution begins one transaction only, and
\* every statement an execution runs goes to the transaction that this
\* execution began.
C11_OwnTransaction ==
    /\ \A r1, r2 \in Open : r1 # r2 => ex[r1].conn # ex[r2].conn
    /\ \A rv \in Open : ex[rv].conn \in pool_conns
    /\ \A rv \in RevIds :
          /\ ex[rv].begun <= 1
          /\ ex[rv].in_flight > 0 => rv \in Open
          /\ Log(rv) # <<>> => Log(rv)[1].ev = "begin"
          /\ \A k \in 2..Len(Log(rv)) : Log(rv)[k].ev # "begin"

\* Two revisions of one benchmark have a statement in flight at the same time
\* while a revision of another benchmark has had its transaction.
C11_Witness ==
    \E r1, r2, r3 \in RevIds :
        /\ r1 # r2 /\ r1[1] = r2[1] /\ r3[1] # r1[1]
        /\ ex[r1].in_flight = 1 /\ ex[r2].in_flight = 1
        /\ ex[r3].begun = 1

\* C12: never more than max_connections connections are checked out, which
\* is the number of executions holding an open transaction; and a revision
\* that waits for a connection while max_connections are checked out takes
\* no step of its own (no transaction, no statement) before one is released.
C12_Step ==
    /\ pool_in_use' = Cardinality({rv \in RevIds : ex'[rv].tx = "open"})
    /\ pool_in_use' <= args.max_connections
    /\ \A rv \in RevIds :
          (ex[rv].pc = "await_begin" /\ pool_in_use >= args.max_connections)
              => /\ ex'[rv].begun = 0
                 /\ ex'[rv].in_flight = 0
                 /\ \A k \in 1..Len(ex'[rv].log) : ex'[rv].log[k].ev # "execute"

C12_PoolBound == [][C12_Step]_vars

\* With one connection: a revision has had its transaction, a second one has
\* a statement in flight on the connection, a third one waits.
C12_Witness ==
    /\ args.max_connections = 1 /\ pool_in_use = 1
    /\ \E r1, r2, r3 \in RevIds :
          /\ ex[r1].pc = "returned" /\ ex[r1].begun = 1
          /\ ex[r2].in_flight = 1
          /\ ex[r3].pc = "await_begin"

\* C13: an execution that is over, whatever its outcome (Ok, Err, panic,
\* abandoned), holds no connection: the connections checked out are those of
\* the executions still running, and all are idle when none is running.
C13_NoConnectionLeak ==
    /\ \A rv \in RevIds : Exited(rv) => rv \notin Open /\ ex[rv].conn = 0
    /\ pool_in_use = Cardinality({rv \in Open : ~Exited(rv)})
    /\ (\A rv \in RevIds : Exited(rv)) => pool_in_use = 0 /\ Idle = pool_conns

\* An execution returned Err and a sibling was abandoned, both after they
\* had begun a transaction, and every connection is idle.
C13_Witness ==
    \E r1, r2 \in RevIds :
        /\ ex[r1].ret.kind = "err" /\ ex[r1].begun = 1
        /\ ex[r2].pc = "dropped" /\ ex[r2].begun = 1
        /\ pool_in_use = 0 /\ Cardinality(pool_conns) = 2

\* C14: in the result of a run the BenchmarkOutcomes stand in the order of
\* the benchmark definitions of the suite, and inside each the revision
\* outcomes stand in the order of the revisions of the definition, whatever
\* order the executions completed in.
C14_DefinitionOrder ==
    run_ret.kind = "ok" =>
        /\ Len(run_ret.value) = Len(suite)
        /\ \A k \in 1..Len(run_ret.value) :
              /\ run_ret.value[k].name = suite[k].name
              /\ Len(run_ret.value[k].results) = Len(suite[k].revisions)
              /\ \A j \in 1..Len(run_ret.value[k].results) :
                    run_ret.value[k].results[j].revision_name = suite[k].revisions[j].name

\* The statements of a script, tagged with the phase they belong to.
Tagged(kind, script) ==
    IF script.some
    THEN LET pieces == extract_multiline_queries(script.text)
         IN  [k \in 1..Len(pieces) |-> [kind |-> kind, text |-> pieces[k]]]
    ELSE <<>>

\* What a successful execution of rv runs on its transaction, in order.
Lifecycle(rv) ==
    Tagged("pre", RevisionOf(rv).pre_script)
        \o [k \in 1..args.iterations |-> [kind |-> "query", text |-> RevisionOf(rv).query]]
        \o Tagged("post", RevisionOf(rv).post_script)
        \o <<[kind |-> "rollback", text |-> <<>>]>>

\* C15: in a successful execution the phases come strictly one after the
\* other and each script runs once: after begin, every statement of the
\* pre-script in script order, then the n iterations of the query, then
\* every statement of the post-script, then the rollback, each statement
\* started only when the one before it has completed; so no statement of a
\* script runs between two iterations.
C15_PhaseOrder ==
    \A rv \in RevIds :
        Completed(rv) =>
            LET S == Lifecycle(rv)
                L == Log(rv)
            IN  /\ Len(L) = 1 + 2 * Len(S)
                /\ L[1].ev = "begin"
                /\ \A j \in 1..Len(S) :
                      /\ L[2 * j].ev = "execute"
                      /\ L[2 * j].kind = S[j].kind /\ L[2 * j].text = S[j].text
                      /\ L[2 * j + 1].ev = (IF j = Len(S) THEN "rollback" ELSE "done")
                      /\ j < Len(S) =>
                            L[2 * j + 1].kind = S[j].kind /\ L[2 * j + 1].text = S[j].text

\* A successful execution with two pre-script statements, two iterations and
\* a post-script.
C15_Witness ==
    \E rv \in RevIds :
        /\ Completed(rv)
        /\ Executed(rv, "pre") = 2 /\ Executed(rv, "query") = 2 /\ Executed(rv, "post") >= 1
        /\ RevisionOf(rv).pre_script.text = ScriptAB

\* C16: with iterations = 0 the executor divides by no zero count: the
\* execution does not fault, and when no statement failed it goes through
\* post-script and rollback and returns an outcome.
C16_ZeroIterations ==
    \A rv \in RevIds :
        args.iterations = 0 =>
            /\ ex[rv].ret.kind # "panic"
            /\ (Exited(rv) /\ ex[rv].ret.kind # "err") => Completed(rv)

\* C17: execute_script submits no empty statement: no statement of a
\* pre-script or post-script that reaches the database is empty.
C17_NoEmptyStatement ==
    \A rv \in RevIds :
        \A k \in 1..Len(Log(rv)) :
            (Log(rv)[k].ev = "execute" /\ Log(rv)[k].kind \in {"pre", "post"})
                => Log(rv)[k].text # <<>>

\* The call of fn has returned.
Returned(fn) == call.fn = fn /\ call.ret.kind = "ok"

\* The positions of the ';' of s, and the k-th of them (0 for k = 0).
SemiAt(s) == {k \in 1..Len(s) : s[k] = ";"}
Cut(s, k) ==
    IF k = 0 THEN 0
    ELSE CHOOSE c \in SemiAt(s) : Cardinality({d \in SemiAt(s) : d <= c}) = k

\* s without the blanks at its ends.
Stripped(s) ==
    LET solid == {k \in 1..Len(s) : s[k] # " "} IN
    IF solid = {} THEN <<>>
    ELSE SubSeq(s, CHOOSE k \in solid : \A j \in solid : k <= j,
                   CHOOSE k \in solid : \A j \in solid : j <= k)

\* The text up to and with each ';', then what follows the last ';' if
\* anything does, each stripped.
CutAfterEverySemi(s) ==
    LET n == Cardinality(SemiAt(s))
        rest == SubSeq(s, Cut(s, n) + 1, Len(s))
    IN  [k \in 1..n |-> Stripped(SubSeq(s, Cut(s, k - 1) + 1, Cut(s, k)))]
            \o (IF rest = <<>> THEN <<>> ELSE <<Stripped(rest)>>)

C20_NeverEmpty ==
    Returned("format_duration_pretty") =>
        /\ call.ret.value # <<>>
        /\ (call.arg.secs = 0 /\ call.arg.nanos < 1000000)
              => call.ret.value = <<"0", "m", "s">>

\* A Duration of 999999 ns was rendered as "0ms".
C20_Witness ==
    /\ Returned("format_duration_pretty")
    /\ call.arg = [secs |-> 0, nanos |-> 999999]
    /\ call.ret.value = <<"0", "m", "s">>

\* rv waits for a connection of the exhausted pool.
Waiting(rv) == rv \in RevIds /\ ex[rv].pc = "await_begin" /\ Acquirable = {}
Obtained(rv) == rv \in RevIds /\ ex[rv].begun = 1
BeginFailed(rv) ==
    /\ rv \in RevIds
    /\ ex[rv].ret.kind = "err"
    /\ ex[rv].ret.error.source \in {"PoolTimedOut", "Io"}

\* C19: a revision that waits for a pool connection does not wait for ever:
\* its wait ends with the connection, obtained once one is released, or with
\* the error of pool.begin() when acquire_timeout elapses first.
C19_WaitEnds ==
    \A rv \in AllRevIds : Waiting(rv) ~> (Obtained(rv) \/ BeginFailed(rv))

RECURSIVE Words(_)
Words(str) ==
    IF str = <<>> THEN <<>>
    ELSE LET blanks == {k \in 1..Len(str) : str[k] = " "} IN
         IF blanks = {} THEN <<str>>
         ELSE LET k == CHOOSE b \in blanks : \A c \in blanks : b <= c
              IN  <<SubSeq(str, 1, k - 1)>> \o Words(SubSeq(str, k + 1, Len(str)))

IsDigit(c) == \E v \in 0..9 : DecimalDigits[v + 1] = c
DigitValue(c) == CHOOSE v \in 0..9 : DecimalDigits[v + 1] = c

RECURSIVE NumberOf(_, _)
NumberOf(word, acc) ==
    IF word # <<>> /\ IsDigit(Head(word))
    THEN NumberOf(Tail(word), 10 * acc + DigitValue(Head(word)))
    ELSE acc

RECURSIVE UnitOf(_)
UnitOf(word) == IF word # <<>> /\ IsDigit(Head(word)) THEN UnitOf(Tail(word)) ELSE word

\* The value printed with a unit in a rendering, 0 when the unit is absent.
Shows(str, unit) == \E k \in 1..Len(Words(str)) : UnitOf(Words(str)[k]) = unit
Printed(str, unit) ==
    IF Shows(str, unit)
    THEN NumberOf(Words(str)[CHOOSE k \in 1..Len(Words(str)) : UnitOf(Words(str)[k]) = unit], 0)
    ELSE 0

\* C25: the units printed by format_duration_pretty add up to the Duration
\* truncated to whole milliseconds (a year being 365 days), and the days
\* printed stay below 365 when years are printed.  The sum is compared as
\* whole seconds and milliseconds of the second.
C25_UnitsAddUp ==
    Returned("format_duration_pretty") =>
        LET str == call.ret.value
            days == 365 * Printed(str, <<"y">>) + Printed(str, <<"d">>)
            secs == 60 * (60 * (24 * days + Printed(str, <<"h">>)) + Printed(str, <<"m">>))
                        + Printed(str, <<"s">>)
        IN  /\ secs = call.arg.secs
            /\ Printed(str, <<"m", "s">>) = call.arg.nanos \div 1000000
            /\ Shows(str, <<"y">>) => Printed(str, <<"d">>) < 365

\* C22: when pool.begin() fails for a revision, no statement of that
\* revision (pre-script, query, post-script) is executed, and the failure is
\* the error the run returns, not an outcome of the revision in a result.
C22_BeginFailure ==
    \A rv \in RevIds :
        (ex[rv].pc = "returned" /\ ex[rv].begun = 0) =>
            /\ Log(rv) = <<>> /\ ex[rv].writes = {}
            /\ ex[rv].ret.kind = "err"
            /\ ex[rv].ret.error.source \in {"PoolTimedOut", "Io"}
            /\ run_ret.kind = "err"
            /\ run_ret.error.source = ex[rv].ret.error
            /\ \A k \in 1..Len(results[rv[1]]) :
                  results[rv[1]][k].revision_name # RevisionOf(rv).name

\* The begin of a revision timed out on the exhausted pool while a sibling
\* had a statement in flight.
C22_Witness ==
    \E r1, r2 \in RevIds :
        /\ ex[r1].pc = "returned" /\ ex[r1].begun = 0
        /\ ex[r1].ret.kind = "err" /\ ex[r1].ret.error.source = "PoolTimedOut"
        /\ ex[r2].pc = "dropped" /\ Executed(r2, "query") = 1
        /\ run_ret.kind = "err"

\* C23: once the run has returned, with a result or with the error of one
\* revision, every revision execution is over, the executions that were
\* still in flight having been abandoned; the transaction of each is rolled
\* back, never committed, its connection is back in the pool, and no
\* transaction is open.
C23_AbandonedRolledBack ==
    run_ret.kind # "none" =>
        /\ \A rv \in RevIds :
              /\ Exited(rv)
              /\ ex[rv].tx \notin {"open", "committed"}
              /\ ex[rv].conn = 0 /\ ex[rv].writes = {}
              /\ (ex[rv].pc = "dropped" /\ ex[rv].begun = 1) =>
                    /\ ex[rv].tx = "rolled_back"
                    /\ Log(rv)[Len(Log(rv))].ev = "rollback"
        /\ pool_in_use = 0 /\ Idle = pool_conns
        /\ db = {}

\* The run returned the error of a failed statement while a sibling of the
\* same benchmark had its query in flight: the sibling's transaction was
\* rolled back by the drop.
C23_Witness ==
    \E r1, r2 \in RevIds :
        /\ r1 # r2 /\ r1[1] = r2[1]
        /\ run_ret.kind = "err" /\ StatementFailed(r1)
        /\ ex[r2].pc = "dropped" /\ ex[r2].tx = "rolled_back"
        /\ Log(r2)[Len(Log(r2)) - 1].ev = "execute"
        /\ Log(r2)[Len(Log(r2))].kind = "drop"

\* C24: at the final rollback the Arc of the transaction has one owner and
\* its Mutex is unlocked: each clone given to execute_script is gone when
\* the call is over and no guard is alive, so Arc::try_unwrap(..).unwrap()
\* does not fail.
C24_SoleOwner ==
    \A rv \in RevIds :
        /\ ex[rv].ret.kind = "panic" => ex[rv].ret.what # "try_unwrap"
        /\ ex[rv].pc = "await_script" => ex[rv].refs = 2
        /\ ex[rv].pc = "await_query" => ex[rv].refs = 1
        /\ ex[rv].pc = "await_rollback" =>
              /\ ex[rv].refs = 0 /\ ~ex[rv].locked /\ ex[rv].phase = "none"
              /\ Log(rv)[Len(Log(rv))] = Event("execute", "rollback", <<>>)

\* The rollback is in flight after a pre-script, two iterations and a
\* post-script.
C24_Witness ==
    \E rv \in RevIds :
        /\ ex[rv].pc = "await_rollback"
        /\ Executed(rv, "pre") >= 1 /\ Executed(rv, "query") = 2 /\ Executed(rv, "post") >= 1

====
